---- MODULE Spec2Model ----
(***************************************************************************)
(* A model of src/Tetris.py: the Tetromino and Game classes.  The grid is  *)
(* a sequence of rows (row 0 of the source is element 1), a shape is a     *)
(* sequence of rows of 0/1, and the piece position (x, y) is kept 0-based  *)
(* as in the source.                                                       *)
(***************************************************************************)
EXTENDS Integers, Sequences, FiniteSets, TLC

\* ---------------------------------------------------------------- bounds
\* The board is scaled down from the source's 10 x 20 (lines 10-11); 8 is the
\* least width at which the I piece spawned at column 4 lies inside the board.
GRID_WIDTH == 8
GRID_HEIGHT == 3
\* Colours drawn by Tetromino.__init__ are 1..MaxColor (the source: 1..7).
MaxColor == 1
\* Spec (all seven shapes) follows a session while the board holds at most
\* MaxCells locked cells, SpecStack (the shapes I, O and L) while it holds at
\* most StackCells, and both while the score is at most MaxScore.
MaxCells == 0
StackCells == 4
MaxScore == 100
\* SpecLong (I pieces only, any number of locks) follows a session while the
\* score is at most LongScore.
LongScore == 10000
\* Time between two frames; now - last_fall is followed up to MaxElapsed, which
\* exceeds every fall_speed, and kept there beyond.
TickMs == 1000
MaxElapsed == 2000

\* SpecRotate follows up to MaxRotations rotate calls on one piece.
MaxRotations == 4

\* SpecPack (O pieces only, any number of locks) follows a session while the
\* score is at most PackScore.
PackScore == 400

\* ------------------------------------------------------ program constants
SpawnX == 4
SpawnY == 0
InitFallSpeed == 1000
GameOverWaitMs == 3000

SHAPES ==
  << << <<1, 1, 1, 1>> >>,
     << <<1, 1>>, <<1, 1>> >>,
     << <<1, 1, 1>>, <<0, 1, 0>> >>,
     << <<1, 1, 1>>, <<1, 0, 0>> >>,
     << <<1, 1, 1>>, <<0, 0, 1>> >>,
     << <<1, 1, 0>>, <<0, 1, 1>> >>,
     << <<0, 1, 1>>, <<1, 1, 0>> >> >>

VARIABLES grid, current_piece, score, level, fall_speed, elapsed, state, ret, op, call

vars == <<grid, current_piece, score, level, fall_speed, elapsed, state, ret, op, call>>

\* ---------------------------------------------------------------- helpers
Max(a, b) == IF a >= b THEN a ELSE b

Min(a, b) == IF a <= b THEN a ELSE b

EmptyRow == [c \in 1..GRID_WIDTH |-> 0]

EmptyGrid == [r \in 1..GRID_HEIGHT |-> EmptyRow]

\* Python's all(row): every cell is truthy (non-zero).
AllCells(row) == \A c \in 1..Len(row) : row[c] # 0

\* ---------------------------------------------------------------- Tetromino
\* zip(*shape): the transposed matrix.
Zip(shape) == [c \in 1..Len(shape[1]) |-> [r \in 1..Len(shape) |-> shape[r][c]]]

\* list(row)[::-1]
Reversed(row) == [j \in 1..Len(row) |-> row[Len(row) + 1 - j]]

\* Mutant of rotate: each row of the transposed matrix is shifted by one cell
\* in place of being reversed.
rotate_shifted(shape) ==
  [c \in 1..Len(Zip(shape)) |->
     [j \in 1..Len(Zip(shape)[c]) |-> Zip(shape)[c][(j % Len(Zip(shape)[c])) + 1]]]

rotate(shape) == [c \in 1..Len(Zip(shape)) |-> Reversed(Zip(shape)[c])]

Tetromino(s, col, px, py) == [shape |-> SHAPES[s], color |-> col, x |-> px, y |-> py]

\* ---------------------------------------------------------------- Game
\* check_collision scans the cells row by row and returns at the first hit;
\* k is the 0-based row-major index of the cell under test.
RECURSIVE CollisionFrom(_, _, _, _, _)
CollisionFrom(p, g, dx, dy, k) ==
  LET R == Len(p.shape)
      C == Len(p.shape[1])
  IN IF k >= R * C THEN FALSE
     ELSE LET yy == k \div C
              xx == k % C
              new_x == p.x + xx + dx
              new_y == p.y + yy + dy
          IN IF p.shape[yy + 1][xx + 1] # 0
             THEN IF ~(0 <= new_x /\ new_x < GRID_WIDTH /\ new_y < GRID_HEIGHT)
                  THEN TRUE
                  ELSE IF new_y >= 0 /\ g[new_y + 1][new_x + 1] # 0
                       THEN TRUE
                       ELSE CollisionFrom(p, g, dx, dy, k + 1)
             ELSE CollisionFrom(p, g, dx, dy, k + 1)

\* Mutant of check_collision: cells above the board are skipped altogether.
check_collision_skip_above(p, g, dx, dy) ==
  \E rc \in (0..(Len(p.shape) - 1)) \X (0..(Len(p.shape[1]) - 1)) :
    /\ p.shape[rc[1] + 1][rc[2] + 1] # 0
    /\ p.y + rc[1] + dy >= 0
    /\ \/ ~(0 <= p.x + rc[2] + dx /\ p.x + rc[2] + dx < GRID_WIDTH
            /\ p.y + rc[1] + dy < GRID_HEIGHT)
       \/ g[p.y + rc[1] + dy + 1][p.x + rc[2] + dx + 1] # 0

check_collision(p, g, dx, dy) == CollisionFrom(p, g, dx, dy, 0)

\* A Python list index: a negative index counts from the end.
PyIndex(i, n) == IF i < 0 THEN i + n ELSE i

\* The writes of merge_piece (lines 223-226), cell by cell.
RECURSIVE MergeFrom(_, _, _)
MergeFrom(p, g, k) ==
  LET R == Len(p.shape)
      C == Len(p.shape[1])
  IN IF k >= R * C THEN g
     ELSE LET yy == k \div C
              xx == k % C
              row == PyIndex(p.y + yy, Len(g)) + 1
              col == PyIndex(p.x + xx, GRID_WIDTH) + 1
          IN IF p.shape[yy + 1][xx + 1] # 0
             THEN MergeFrom(p, [g EXCEPT ![row][col] = p.color], k + 1)
             ELSE MergeFrom(p, g, k + 1)

\* Mutant of MergeCells: every cell of the shape matrix is written, occupied
\* or not.
MergeCellsBox(p, g) ==
  [r \in 1..Len(g) |->
     [c \in 1..GRID_WIDTH |->
        IF /\ p.y < r /\ r <= p.y + Len(p.shape)
           /\ p.x < c /\ c <= p.x + Len(p.shape[1])
        THEN p.color ELSE g[r][c]]]

MergeCells(p, g) == MergeFrom(p, g, 0)

\* Mutant of DelInsert: the empty row is appended at the bottom.
DelInsertBottom(g, i) == SubSeq(g, 1, i - 1) \o SubSeq(g, i + 1, Len(g)) \o <<EmptyRow>>

\* del self.grid[i]; self.grid.insert(0, [0] * GRID_WIDTH)   (i is 1-based here)
DelInsert(g, i) == <<EmptyRow>> \o SubSeq(g, 1, i - 1) \o SubSeq(g, i + 1, Len(g))

\* Mutant of ClearFrom: the row that follows a deleted row is skipped.
RECURSIVE ClearFromSkipping(_, _, _)
ClearFromSkipping(g, i, n) ==
  IF i > Len(g) THEN [grid |-> g, lines |-> n]
  ELSE IF AllCells(g[i]) THEN ClearFromSkipping(DelInsert(g, i), i + 2, n + 1)
       ELSE ClearFromSkipping(g, i + 1, n)

\* The loop of clear_lines (lines 250-255): the list iterator holds an index
\* that advances by one whatever the body did to the list.
RECURSIVE ClearFrom(_, _, _)
ClearFrom(g, i, n) ==
  IF i > Len(g) THEN [grid |-> g, lines |-> n]
  ELSE IF AllCells(g[i]) THEN ClearFrom(DelInsert(g, i), i + 1, n + 1)
       ELSE ClearFrom(g, i + 1, n)

\* Mutant of NewScore: the level is left out of the product.
NewScoreNoLevel(s, l, k) == s + 100 * k

\* Mutant of NewScore: -= in place of +=.
NewScoreMinus(s, l, k) == s - 100 * k * l

\* self.score += 100 * lines_cleared * self.level
NewScore(s, l, k) == s + 100 * k * l

\* Mutant of NewLevel: the levels are counted from 0.
NewLevelFromZero(s) == s \div 1000

\* self.level = 1 + self.score // 1000
NewLevel(s) == 1 + (s \div 1000)

\* Mutant of NewFallSpeed: level 1 keeps the initial interval.
NewFallSpeedFromInit(l) == Max(100, 1000 - ((l - 1) * 100))

\* self.fall_speed = max(100, 1000 - (self.level * 100))
NewFallSpeed(l) == Max(100, 1000 - (l * 100))

\* Mutant of clear_lines: the update of lines 257-259 is made whatever the
\* number of lines cleared.
clear_lines_always(g, s, l, f) ==
  LET c == ClearFrom(g, 1, 0)
  IN [grid |-> c.grid, lines |-> c.lines,
      score |-> NewScore(s, l, c.lines),
      level |-> NewLevel(NewScore(s, l, c.lines)),
      fall_speed |-> NewFallSpeed(NewLevel(NewScore(s, l, c.lines)))]

\* clear_lines on a game with grid g, score s, level l and fall_speed f.
clear_lines(g, s, l, f) ==
  LET c == ClearFrom(g, 1, 0)
  IN IF c.lines # 0
     THEN [grid |-> c.grid, lines |-> c.lines,
           score |-> NewScore(s, l, c.lines),
           level |-> NewLevel(NewScore(s, l, c.lines)),
           fall_speed |-> NewFallSpeed(NewLevel(NewScore(s, l, c.lines)))]
     ELSE [grid |-> c.grid, lines |-> 0, score |-> s, level |-> l, fall_speed |-> f]

\* merge_piece up to and including clear_lines (lines 223-227).
Merged(p, g, s, l, f) == clear_lines(MergeCells(p, g), s, l, f)

\* Mutant of DropFrom: an if in place of the while, a single step down.
DropFromOneStep(p, g) ==
  IF check_collision(p, g, 0, 1) THEN p ELSE [p EXCEPT !.y = @ + 1]

\* Mutant of DropFrom: the piece is put at the lowest row at which it does not
\* collide, whatever lies between.
DropFromThrough(p, g) ==
  LET free == {r \in p.y..(GRID_HEIGHT - 1) : ~check_collision([p EXCEPT !.y = r], g, 0, 0)}
  IN IF free = {} THEN p
     ELSE [p EXCEPT !.y = CHOOSE r \in free : \A q \in free : q <= r]

\* The while loop of the K_SPACE handler (lines 335-336).
RECURSIVE DropFrom(_, _)
DropFrom(p, g) ==
  IF check_collision(p, g, 0, 1) THEN p
  ELSE DropFrom([p EXCEPT !.y = @ + 1], g)

\* The number of locked cells of a grid.
Cells(g) == Cardinality({rc \in (1..Len(g)) \X (1..GRID_WIDTH) : g[rc[1]][rc[2]] # 0})

\* ---------------------------------------------------------------- bounds of a run
\* b.shapes: the shapes random.choice may draw; b.cells, b.score: the session
\* is followed while the board holds at most b.cells cells and the score is
\* at most b.score.
AllShapes == 1..Len(SHAPES)

FullRun == [shapes |-> AllShapes, cells |-> MaxCells, score |-> MaxScore]

StackRun == [shapes |-> {1, 2, 5}, cells |-> StackCells, score |-> MaxScore]

LongRun == [shapes |-> {1}, cells |-> GRID_WIDTH * GRID_HEIGHT, score |-> LongScore]

PackRun == [shapes |-> {2}, cells |-> GRID_WIDTH * GRID_HEIGHT, score |-> PackScore]

\* SpecFair follows the piece of a session (a T or an L) that falls on the
\* empty board.
FairRun == [shapes |-> {3, 5}, cells |-> MaxCells, score |-> MaxScore]

Live(b) ==
  /\ state = "Falling"
  /\ score <= b.score
  /\ IF b.cells >= GRID_WIDTH * GRID_HEIGHT THEN TRUE ELSE Cells(grid) <= b.cells

\* The next frame's now - last_fall: get_ticks() never goes back.
NextFrame(e) == Min(Max(0, e) + TickMs, MaxElapsed)

\* ---------------------------------------------------------------- state
\* Game.__init__ (lines 97-106) followed by the first now = get_ticks().
Init ==
  /\ grid = EmptyGrid
  /\ score = 0
  /\ level = 1
  /\ fall_speed = InitFallSpeed
  /\ elapsed = 0
  /\ \E s \in AllShapes, col \in 1..MaxColor :
       current_piece = Tetromino(s, col, SpawnX, SpawnY)
  /\ state = "Falling"
  /\ ret = "events"
  /\ op = "init"
  /\ call = "none"

\* Mutant of new_piece: the spawned piece is tested one row further down.
new_piece_below(g, b, caller) ==
  \E s \in b.shapes, col \in 1..MaxColor :
    LET hit == check_collision(Tetromino(s, col, SpawnX, SpawnY), g, 0, 1)
    IN /\ current_piece' = Tetromino(s, col, SpawnX, SpawnY)
       /\ state' = IF hit THEN "GameOver" ELSE "Falling"
       /\ ret' = IF hit THEN caller ELSE "events"

\* Mutant of new_piece: the piece is made one row above the board.
new_piece_above(g, b, caller) ==
  \E s \in b.shapes, col \in 1..MaxColor :
    LET hit == check_collision(Tetromino(s, col, SpawnX, SpawnY - 1), g, 0, 0)
    IN /\ current_piece' = Tetromino(s, col, SpawnX, SpawnY - 1)
       /\ state' = IF hit THEN "GameOver" ELSE "Falling"
       /\ ret' = IF hit THEN caller ELSE "events"

\* new_piece (lines 108-114) up to the call of game_over, on the grid g.
new_piece(g, b, caller) ==
  \E s \in b.shapes, col \in 1..MaxColor :
    LET hit == check_collision(Tetromino(s, col, SpawnX, SpawnY), g, 0, 0)
    IN /\ current_piece' = Tetromino(s, col, SpawnX, SpawnY)
       /\ state' = IF hit THEN "GameOver" ELSE "Falling"
       /\ ret' = IF hit THEN caller ELSE "events"

\* merge_piece (lines 223-228).
merge_piece(p, b, caller) ==
  LET m == Merged(p, grid, score, level, fall_speed)
  IN /\ grid' = m.grid
     /\ score' = m.score
     /\ level' = m.level
     /\ fall_speed' = m.fall_speed
     /\ new_piece(m.grid, b, caller)

\* ---------------------------------------------------------------- run: key events
KeyLeft(b) ==
  /\ Live(b)
  /\ current_piece' = IF ~check_collision(current_piece, grid, -1, 0)
                      THEN [current_piece EXCEPT !.x = @ - 1] ELSE current_piece
  /\ op' = "left"
  /\ UNCHANGED <<grid, score, level, fall_speed, elapsed, state, ret, call>>

KeyRight(b) ==
  /\ Live(b)
  /\ current_piece' = IF ~check_collision(current_piece, grid, 1, 0)
                      THEN [current_piece EXCEPT !.x = @ + 1] ELSE current_piece
  /\ op' = "right"
  /\ UNCHANGED <<grid, score, level, fall_speed, elapsed, state, ret, call>>

\* The K_DOWN handler (lines 326-328) on the piece p.
SoftDrop(p, g) ==
  IF ~check_collision(p, g, 0, 1) THEN [p EXCEPT !.y = @ + 1] ELSE p

\* Mutant of KeyDown: a blocked soft-drop locks the piece, as the auto-fall
\* does.
KeyDownLocks(b) ==
  /\ Live(b)
  /\ IF ~check_collision(current_piece, grid, 0, 1)
     THEN /\ current_piece' = [current_piece EXCEPT !.y = @ + 1]
          /\ UNCHANGED <<grid, score, level, fall_speed, state, ret>>
     ELSE merge_piece(current_piece, b, "events")
  /\ op' = "down"
  /\ UNCHANGED <<elapsed, call>>

KeyDown(b) ==
  /\ Live(b)
  /\ current_piece' = SoftDrop(current_piece, grid)
  /\ op' = "down"
  /\ UNCHANGED <<grid, score, level, fall_speed, elapsed, state, ret, call>>

\* Mutant of Rotated: the rotated piece is kept even when it collides.
RotatedNoRevert(p, g) == [p EXCEPT !.shape = rotate(@)]

\* rotate, and three more rotations when the rotated piece collides.
Rotated(p, g) ==
  LET r1 == [p EXCEPT !.shape = rotate(@)]
  IN IF check_collision(r1, g, 0, 0)
     THEN [p EXCEPT !.shape = rotate(rotate(rotate(r1.shape)))]
     ELSE r1

\* Mutant of KeyUp: the rotation also lifts the piece by one row, down to
\* row 0.
KeyUpKicksUp(b) ==
  /\ Live(b)
  /\ current_piece' = [Rotated(current_piece, grid) EXCEPT !.y = Max(0, @ - 1)]
  /\ op' = "up"
  /\ UNCHANGED <<grid, score, level, fall_speed, elapsed, state, ret, call>>

KeyUp(b) ==
  /\ Live(b)
  /\ current_piece' = Rotated(current_piece, grid)
  /\ op' = "up"
  /\ UNCHANGED <<grid, score, level, fall_speed, elapsed, state, ret, call>>

KeySpace(b) ==
  /\ Live(b)
  /\ merge_piece(DropFrom(current_piece, grid), b, "events")
  /\ op' = "space"
  /\ UNCHANGED <<elapsed, call>>

\* ---------------------------------------------------------------- run: auto-fall
\* Mutant of AutoFall: last_fall = now is also set when the piece is locked.
AutoFallStampsOnLock(b) ==
  /\ Live(b)
  /\ op' = "tick"
  /\ UNCHANGED call
  /\ IF elapsed > fall_speed
     THEN IF ~check_collision(current_piece, grid, 0, 1)
          THEN /\ current_piece' = [current_piece EXCEPT !.y = @ + 1]
               /\ elapsed' = NextFrame(0)
               /\ UNCHANGED <<grid, score, level, fall_speed, state, ret>>
          ELSE /\ merge_piece(current_piece, b, "tick")
               /\ elapsed' = IF state' = "GameOver" THEN elapsed ELSE NextFrame(0)
     ELSE /\ elapsed' = NextFrame(elapsed)
          /\ UNCHANGED <<grid, current_piece, score, level, fall_speed, state, ret>>

\* Lines 339-344, the end of the frame and the next frame's now = get_ticks().
AutoFall(b) ==
  /\ Live(b)
  /\ op' = "tick"
  /\ UNCHANGED call
  /\ IF elapsed > fall_speed
     THEN IF ~check_collision(current_piece, grid, 0, 1)
          THEN /\ current_piece' = [current_piece EXCEPT !.y = @ + 1]
               /\ elapsed' = NextFrame(0)
               /\ UNCHANGED <<grid, score, level, fall_speed, state, ret>>
          ELSE /\ merge_piece(current_piece, b, "tick")
               /\ elapsed' = IF state' = "GameOver" THEN elapsed ELSE NextFrame(elapsed)
     ELSE /\ elapsed' = NextFrame(elapsed)
          /\ UNCHANGED <<grid, current_piece, score, level, fall_speed, state, ret>>

\* ---------------------------------------------------------------- game_over
\* Mutant of GameOverReset: the board is kept across the reset.
GameOverResetKeepsGrid(b) ==
  /\ state = "GameOver"
  /\ grid' = grid
  /\ score' = 0
  /\ level' = 1
  /\ fall_speed' = InitFallSpeed
  /\ new_piece(grid, b, ret)
  /\ elapsed' = IF ret = "tick" THEN NextFrame(-GameOverWaitMs) ELSE -GameOverWaitMs
  /\ op' = "reset"
  /\ UNCHANGED call

\* Lines 281-286: the wait, then __init__ again; control returns to the event
\* loop (ret = "events", now is stale) or to the end of the frame (ret = "tick").
GameOverReset(b) ==
  /\ state = "GameOver"
  /\ grid' = EmptyGrid
  /\ score' = 0
  /\ level' = 1
  /\ fall_speed' = InitFallSpeed
  /\ new_piece(EmptyGrid, b, ret)
  /\ elapsed' = IF ret = "tick" THEN NextFrame(-GameOverWaitMs) ELSE -GameOverWaitMs
  /\ op' = "reset"
  /\ UNCHANGED call

Next ==
  \/ KeyLeft(FullRun)
  \/ KeyRight(FullRun)
  \/ KeyDown(FullRun)
  \/ KeyUp(FullRun)
  \/ KeySpace(FullRun)
  \/ AutoFall(FullRun)
  \/ GameOverReset(FullRun)

Spec == Init /\ [][Next]_vars

NextLong ==
  \/ KeyLeft(LongRun)
  \/ KeyRight(LongRun)
  \/ KeyDown(LongRun)
  \/ KeyUp(LongRun)
  \/ KeySpace(LongRun)
  \/ AutoFall(LongRun)
  \/ GameOverReset(LongRun)

InitLong ==
  /\ Init
  /\ \E s \in LongRun.shapes : current_piece.shape = SHAPES[s]

NextStack ==
  \/ KeyLeft(StackRun)
  \/ KeyRight(StackRun)
  \/ KeyDown(StackRun)
  \/ KeyUp(StackRun)
  \/ KeySpace(StackRun)
  \/ AutoFall(StackRun)
  \/ GameOverReset(StackRun)

InitStack ==
  /\ Init
  /\ \E s \in StackRun.shapes : current_piece.shape = SHAPES[s]

NextPack ==
  \/ KeyLeft(PackRun)
  \/ KeyRight(PackRun)
  \/ KeyDown(PackRun)
  \/ KeyUp(PackRun)
  \/ KeySpace(PackRun)
  \/ AutoFall(PackRun)
  \/ GameOverReset(PackRun)

InitPack ==
  /\ Init
  /\ \E s \in PackRun.shapes : current_piece.shape = SHAPES[s]

SpecPack == InitPack /\ [][NextPack]_vars

SpecStack == InitStack /\ [][NextStack]_vars

SpecLong == InitLong /\ [][NextLong]_vars

NextFair ==
  \/ KeyLeft(FairRun)
  \/ KeyRight(FairRun)
  \/ KeyDown(FairRun)
  \/ KeyUp(FairRun)
  \/ KeySpace(FairRun)
  \/ AutoFall(FairRun)
  \/ GameOverReset(FairRun)

InitFair ==
  /\ Init
  /\ \E s \in FairRun.shapes : current_piece.shape = SHAPES[s]

\* SpecFair: run executes the auto-fall test of lines 339-344 in every frame,
\* whatever events the frame had, so the auto-fall step is taken again and
\* again.
SpecFair == InitFair /\ [][NextFair]_vars /\ WF_vars(AutoFall(FairRun))

\* ---------------------------------------------------------------- single calls
\* Rows the grids of SpecClear and SpecCollide are built from.
FullRow == [c \in 1..GRID_WIDTH |-> 1]

HoleRow(j) == [c \in 1..GRID_WIDTH |-> IF c = j THEN 0 ELSE 1]

CellRow(j) == [c \in 1..GRID_WIDTH |-> IF c = j THEN 1 ELSE 0]

ClearRows == {EmptyRow, FullRow, HoleRow(1), HoleRow(GRID_WIDTH), CellRow(2)}

ClearScores == {0, 950, 2900}

ClearLevels == {1, 3}

\* SpecClear: one call of clear_lines on a game whose grid, score and level are
\* drawn from the sets above; call keeps the values before the call.
InitClear ==
  /\ grid \in [1..GRID_HEIGHT -> ClearRows]
  /\ score \in ClearScores
  /\ level \in ClearLevels
  /\ fall_speed \in {InitFallSpeed, NewFallSpeed(level)}
  /\ elapsed = 0
  /\ current_piece = Tetromino(1, 1, SpawnX, SpawnY)
  /\ state = "Falling"
  /\ ret = "events"
  /\ op = "init"
  /\ call = "none"

CallClearLines ==
  /\ op = "init"
  /\ LET c == clear_lines(grid, score, level, fall_speed)
     IN /\ grid' = c.grid
        /\ score' = c.score
        /\ level' = c.level
        /\ fall_speed' = c.fall_speed
        /\ call' = [grid |-> grid, score |-> score, level |-> level,
                    fall_speed |-> fall_speed, lines |-> c.lines]
  /\ op' = "clear_lines"
  /\ UNCHANGED <<current_piece, elapsed, state, ret>>

SpecClear == InitClear /\ [][CallClearLines]_vars

\* SpecCollide: one call of check_collision(dx, dy) on a piece of any shape and
\* orientation at any position around the board; call keeps dx, dy and the
\* value returned.
CollideRows == {EmptyRow, CellRow(GRID_WIDTH - 2), HoleRow(GRID_WIDTH)}

RECURSIVE RotateTimes(_, _)
RotateTimes(shape, n) == IF n = 0 THEN shape ELSE RotateTimes(rotate(shape), n - 1)

Orientations == {RotateTimes(SHAPES[s], n) : s \in AllShapes, n \in 0..3}

InitCollide ==
  /\ grid \in [1..GRID_HEIGHT -> CollideRows]
  /\ \E sh \in Orientations, px \in (-1)..(GRID_WIDTH - 1), py \in (-2)..(GRID_HEIGHT - 1) :
       current_piece = [shape |-> sh, color |-> 1, x |-> px, y |-> py]
  /\ score = 0
  /\ level = 1
  /\ fall_speed = InitFallSpeed
  /\ elapsed = 0
  /\ state = "Falling"
  /\ ret = "events"
  /\ op = "init"
  /\ call = "none"

CallCheckCollision ==
  /\ op = "init"
  /\ \E dx \in (-1)..1, dy \in 0..1 :
       call' = [dx |-> dx, dy |-> dy, ret |-> check_collision(current_piece, grid, dx, dy)]
  /\ op' = "check_collision"
  /\ UNCHANGED <<grid, current_piece, score, level, fall_speed, elapsed, state, ret>>

SpecCollide == InitCollide /\ [][CallCheckCollision]_vars

\* SpecMerge: one call of merge_piece on a piece of any shape, orientation and
\* position for which the writes raise no IndexError (a negative index wraps
\* around); the grid cells hold colour 1 and the piece another colour.  call
\* keeps the grid and the piece before the call and the grid after the writes
\* of lines 223-226, before clear_lines.
MergeRows == {EmptyRow, CellRow(2), HoleRow(GRID_WIDTH)}

MergeColors == {2, 7}

InitMerge ==
  /\ grid \in [1..GRID_HEIGHT -> MergeRows]
  /\ \E sh \in Orientations, col \in MergeColors,
        px \in (-1)..(GRID_WIDTH - 1), py \in (-1)..(GRID_HEIGHT - 1) :
       /\ px + Len(sh[1]) <= GRID_WIDTH
       /\ py + Len(sh) <= GRID_HEIGHT
       /\ current_piece = [shape |-> sh, color |-> col, x |-> px, y |-> py]
  /\ score = 0
  /\ level = 1
  /\ fall_speed = InitFallSpeed
  /\ elapsed = 0
  /\ state = "Falling"
  /\ ret = "events"
  /\ op = "init"
  /\ call = "none"

CallMergePiece ==
  /\ op = "init"
  /\ merge_piece(current_piece, FullRun, "events")
  /\ call' = [grid |-> grid, piece |-> current_piece,
              locked |-> MergeCells(current_piece, grid)]
  /\ op' = "merge_piece"
  /\ UNCHANGED elapsed

SpecMerge == InitMerge /\ [][CallMergePiece]_vars

\* SpecRotate: rotate called again and again on a freshly made piece of any of
\* the seven shapes; call keeps the shape the piece was made with and the
\* number of calls so far.
InitRotate ==
  /\ grid = EmptyGrid
  /\ \E s \in AllShapes, col \in 1..MaxColor,
        px \in 0..(GRID_WIDTH - 1), py \in 0..(GRID_HEIGHT - 1) :
       /\ current_piece = Tetromino(s, col, px, py)
       /\ call = [shape |-> SHAPES[s], n |-> 0]
  /\ score = 0
  /\ level = 1
  /\ fall_speed = InitFallSpeed
  /\ elapsed = 0
  /\ state = "Falling"
  /\ ret = "events"
  /\ op = "init"

CallRotate ==
  /\ call.n < MaxRotations
  /\ current_piece' = [current_piece EXCEPT !.shape = rotate(@)]
  /\ call' = [call EXCEPT !.n = @ + 1]
  /\ op' = "rotate"
  /\ UNCHANGED <<grid, score, level, fall_speed, elapsed, state, ret>>

SpecRotate == InitRotate /\ [][CallRotate]_vars

\* ---------------------------------------------------------------- claims
FullRowsOf(g) == {i \in 1..Len(g) : AllCells(g[i])}

NotFull(row) == ~AllCells(row)

OccupiedCells(shape) ==
  {rc \in (0..(Len(shape) - 1)) \X (0..(Len(shape[1]) - 1)) : shape[rc[1] + 1][rc[2] + 1] # 0}

\* The piece p put at row r.
AtRow(p, r) == [p EXCEPT !.y = r]

\* C1: one clear_lines call removes every row that was full before the call,
\* adjacent or not: the grid afterwards is k empty rows followed by the rows
\* that were not full, in their order, k being the number of rows that were
\* full; the number of rows is unchanged.
C1_ClearRemovesEveryFullRow ==
  op = "clear_lines" =>
    LET k == Cardinality(FullRowsOf(call.grid))
    IN /\ call.lines = k
       /\ Len(grid) = Len(call.grid)
       /\ grid = [i \in 1..k |-> EmptyRow] \o SelectSeq(call.grid, NotFull)

\* Two full rows with a row that is neither full nor empty between them.
C1_Witness ==
  /\ op = "clear_lines"
  /\ AllCells(call.grid[1])
  /\ NotFull(call.grid[2]) /\ call.grid[2] # EmptyRow
  /\ AllCells(call.grid[3])
  /\ grid[1] = EmptyRow /\ grid[2] = EmptyRow /\ grid[3] = call.grid[2]

\* C2: check_collision(dx, dy) is true exactly when some occupied cell of the
\* piece put at (x + dx, y + dy) has its column outside [0, width), or its row
\* >= height, or has a row >= 0 and lies on a non-empty grid cell.
C2_CollisionIffSomeCellHits ==
  op = "check_collision" =>
    (call.ret <=>
       \E rc \in OccupiedCells(current_piece.shape) :
         LET col == current_piece.x + call.dx + rc[2]
             row == current_piece.y + call.dy + rc[1]
         IN \/ col < 0
            \/ col >= GRID_WIDTH
            \/ row >= GRID_HEIGHT
            \/ (row >= 0 /\ grid[row + 1][col + 1] # 0))

\* A piece wholly above the board that collides: only the horizontal bounds
\* can be the reason.
C2_Witness ==
  /\ op = "check_collision"
  /\ call.ret
  /\ \A rc \in OccupiedCells(current_piece.shape) : current_piece.y + call.dy + rc[1] < 0

\* C3: when clear_lines removes k >= 1 rows with score s and level l before the
\* call, the score becomes s + 100*k*l, the level 1 + floor(score / 1000) of the
\* new score and fall_speed max(100, 1000 - 100 * level) of the new level:
\* (0, 1, k = 2) gives 200, 1, 900 and (950, 1, k = 1) gives 1050, 2, 800.
C3_ScoringUpdate ==
  (op = "clear_lines" /\ FullRowsOf(call.grid) # {}) =>
    LET k == Cardinality(FullRowsOf(call.grid))
    IN /\ score = call.score + 100 * k * call.level
       /\ level = 1 + (score \div 1000)
       /\ fall_speed = Max(100, 1000 - 100 * level)
       /\ (call.score = 0 /\ call.level = 1 /\ k = 2)
            => (score = 200 /\ level = 1 /\ fall_speed = 900)
       /\ (call.score = 950 /\ call.level = 1 /\ k = 1)
            => (score = 1050 /\ level = 2 /\ fall_speed = 800)

C3_Witness ==
  /\ op = "clear_lines"
  /\ call.score = 950 /\ call.level = 1 /\ call.lines = 1
  /\ score = 1050 /\ level = 2 /\ fall_speed = 800

\* C4 as claimed: in every reachable state fall_speed is
\* max(100, 1000 - 100 * level).
C4_FallSpeedFromLevel == fall_speed = Max(100, 1000 - 100 * level)

\* C4 as amended: fall_speed is 1000 (at level 1) while no line has been
\* cleared in the session, that is while the score is 0, and
\* max(100, 1000 - 100 * level) from the first line clear on.
C4_FallSpeedFromLevelOnceCleared ==
  IF score = 0 THEN fall_speed = 1000 /\ level = 1
  ELSE fall_speed = Max(100, 1000 - 100 * level)

\* Level 1 with the fall interval of the formula, not the initial one.
C4_Witness == score > 0 /\ level = 1 /\ fall_speed = 900

\* C5: in every reachable state level >= 1 and level = 1 + floor(score / 1000).
C5_LevelFromScore == level >= 1 /\ level = 1 + (score \div 1000)

C5_Witness == score >= 1000 /\ level >= 2

\* C6 as claimed: in every reachable state the level is between 1 and 10.
C6_LevelAtMostTen == 1 <= level /\ level <= 10

\* C7: within a session the score is non-negative and no step decreases it;
\* it returns to 0 only through the game-over reset.
C7_ScoreNeverDecreases ==
  /\ [](score >= 0)
  /\ [][score' >= score \/ (state = "GameOver" /\ op' = "reset" /\ score' = 0)]_vars

\* A session that ends with a positive score, which the reset then clears.
C7_Witness == state = "GameOver" /\ score > 0

\* The lowest row at which p collides with nothing, whatever lies above it.
LowestFreeRow(p, g) ==
  CHOOSE r \in 0..(GRID_HEIGHT - 1) :
    /\ ~check_collision(AtRow(p, r), g, 0, 0)
    /\ \A q \in (r + 1)..(GRID_HEIGHT - 1) : check_collision(AtRow(p, q), g, 0, 0)

\* The lowest row p reaches by straight descent: no row from p's own down to
\* it collides, and the next one does.
DescentRow(p, g) ==
  CHOOSE r \in p.y..(GRID_HEIGHT - 1) :
    /\ \A q \in p.y..r : ~check_collision(AtRow(p, q), g, 0, 0)
    /\ check_collision(AtRow(p, r + 1), g, 0, 0)

\* C8 as claimed: a hard-drop locks the piece at the lowest row at which it,
\* in its column and orientation, collides with neither floor nor locked cells.
C8_HardDropLowestFreeRow ==
  [][KeySpace(StackRun) =>
       grid' = Merged(AtRow(current_piece, LowestFreeRow(current_piece, grid)),
                      grid, score, level, fall_speed).grid]_vars

\* C8 as amended: a hard-drop locks the piece at the lowest row it reaches by
\* straight descent: the largest row r >= its current row such that it
\* collides at no row from its current row to r.
C8_HardDropDescentRow ==
  [][KeySpace(StackRun) =>
       grid' = Merged(AtRow(current_piece, DescentRow(current_piece, grid)),
                      grid, score, level, fall_speed).grid]_vars

\* A hard-drop has locked a second piece, an I, two rows above four free cells
\* of the bottom row: it rests on locked cells with room for it beneath them.
C8_Witness ==
  /\ op = "space"
  /\ Cells(grid) = 8
  /\ \E c \in 1..(GRID_WIDTH - 3) : \A j \in c..(c + 3) :
       grid[GRID_HEIGHT - 2][j] # 0 /\ grid[GRID_HEIGHT][j] = 0

\* n soft-drop intents in a row.
RECURSIVE SoftDrops(_, _, _)
SoftDrops(p, g, n) == IF n = 0 THEN p ELSE SoftDrops(SoftDrop(p, g), g, n - 1)

\* C9: a hard-drop produces the board, score, level and fall interval of
\* soft-drop steps applied until check_collision(0, 1) is true followed by the
\* lock at that position, and the lock, line clear and spawn are part of the
\* same step.
C9_HardDropIsSoftDropsThenLock ==
  [][KeySpace(StackRun) =>
       LET q == SoftDrops(current_piece, grid, GRID_HEIGHT)
           m == Merged(q, grid, score, level, fall_speed)
       IN /\ check_collision(q, grid, 0, 1)
          /\ grid' = m.grid /\ score' = m.score
          /\ level' = m.level /\ fall_speed' = m.fall_speed
          /\ current_piece'.x = SpawnX /\ current_piece'.y = SpawnY
          /\ op' = "space"]_vars

\* A hard-drop that completed a line.
C9_Witness == op = "space" /\ score > 0

\* Boards whose top two rows are fully occupied.
TopFullGrids ==
  {[r \in 1..GRID_HEIGHT |-> IF r <= 2 THEN [c \in 1..GRID_WIDTH |-> col] ELSE low] :
     col \in 1..MaxColor, low \in ClearRows}

\* C10: every new piece is spawned at column 4, row 0; the session is in
\* GameOver exactly when the freshly spawned piece collides at offset (0, 0),
\* and enters it only by a step that spawned a piece; on a board whose top two
\* rows are fully occupied every one of the seven shapes collides at the spawn
\* position.
C10_GameOverIffSpawnCollides ==
  /\ [](/\ state = "GameOver" <=> check_collision(current_piece, grid, 0, 0)
        /\ state = "GameOver" => (current_piece.x = 4 /\ current_piece.y = 0)
        /\ \A g \in TopFullGrids : \A s \in 1..7 : \A col \in 1..MaxColor :
             check_collision(Tetromino(s, col, 4, 0), g, 0, 0))
  /\ [][/\ (grid' # grid \/ op' \in {"space", "reset"})
             => (current_piece'.x = 4 /\ current_piece'.y = 0
                 /\ \E s \in 1..7 : current_piece'.shape = SHAPES[s])
        /\ (state' = "GameOver" /\ state # "GameOver")
             => (op' \in {"space", "tick"} /\ grid' # grid)]_vars

C10_Witness ==
  /\ state = "GameOver"
  /\ current_piece.x = 4 /\ current_piece.y = 0
  /\ check_collision(current_piece, grid, 0, 0)

\* C11: the step that leaves GameOver yields an all-empty board, score 0,
\* level 1 and fall_speed 1000 with a freshly spawned piece at (4, 0) that does
\* not collide, so the session is in Falling again; and GameOver is entered
\* only from Falling, by a step that locked a piece.
C11_ResetThenFalling ==
  /\ [][state = "GameOver" =>
          /\ grid' = EmptyGrid /\ score' = 0 /\ level' = 1 /\ fall_speed' = 1000
          /\ current_piece'.x = 4 /\ current_piece'.y = 0
          /\ \E s \in 1..7 : current_piece'.shape = SHAPES[s]
          /\ ~check_collision(current_piece', grid', 0, 0)
          /\ state' = "Falling"]_vars
  /\ [][state' = "GameOver" =>
          /\ state = "Falling"
          /\ op' \in {"space", "tick"}
          /\ Cells(grid') # Cells(grid)]_vars

\* The state right after a reset.
C11_Witness ==
  /\ op = "reset"
  /\ state = "Falling"
  /\ grid = EmptyGrid /\ score = 0 /\ level = 1 /\ fall_speed = 1000

\* Every occupied cell of p lies inside the board and on an empty cell of g.
WithinBoard(p, g) ==
  \A rc \in OccupiedCells(p.shape) :
    /\ 0 <= p.x + rc[2] /\ p.x + rc[2] < GRID_WIDTH
    /\ 0 <= p.y + rc[1] /\ p.y + rc[1] < GRID_HEIGHT
    /\ g[p.y + rc[1] + 1][p.x + rc[2] + 1] = 0

\* The 0-based grid cell (r, c) is covered by an occupied cell of p.
Covered(p, r, c) == \E rc \in OccupiedCells(p.shape) : p.y + rc[1] = r /\ p.x + rc[2] = c

\* C12: when the piece lies within the board and overlaps no occupied cell,
\* the writes of merge_piece (before clear_lines) give the cells the piece
\* covers the piece's colour and leave every other grid cell as it was.
C12_LockWritesFootprintOnly ==
  (op = "merge_piece" /\ WithinBoard(call.piece, call.grid)) =>
    /\ Len(call.locked) = GRID_HEIGHT
    /\ \A r \in 0..(GRID_HEIGHT - 1) : \A c \in 0..(GRID_WIDTH - 1) :
         call.locked[r + 1][c + 1] =
           IF Covered(call.piece, r, c) THEN call.piece.color
           ELSE call.grid[r + 1][c + 1]

\* A piece of three rows locked on a board that already holds cells.
C12_Witness ==
  /\ op = "merge_piece"
  /\ WithinBoard(call.piece, call.grid)
  /\ call.grid # EmptyGrid
  /\ Len(call.piece.shape) = 3
  /\ call.piece.color = 7
  /\ Cells(call.locked) = Cells(call.grid) + 4

\* C13: for each of the seven shapes every rotate keeps the number of occupied
\* cells (and the matrix non-empty), and four rotate calls in a row give back
\* a matrix equal, element by element, to the one the piece was made with.
C13_RotateOrderFour ==
  /\ Len(current_piece.shape) >= 1 /\ Len(current_piece.shape[1]) >= 1
  /\ Cardinality(OccupiedCells(current_piece.shape)) = Cardinality(OccupiedCells(call.shape))
  /\ call.n = 4 =>
       /\ Len(current_piece.shape) = Len(call.shape)
       /\ \A r \in 1..Len(call.shape) :
            /\ Len(current_piece.shape[r]) = Len(call.shape[r])
            /\ \A c \in 1..Len(call.shape[r]) : current_piece.shape[r][c] = call.shape[r][c]

\* Four rotations of a shape that is neither square nor symmetric.
C13_Witness ==
  /\ op = "rotate"
  /\ call.n = 4
  /\ call.shape = SHAPES[4]
  /\ current_piece.shape = SHAPES[4]

\* C14: when no row of the grid is full, in particular on an all-empty
\* board, clear_lines removes no row (count 0) and leaves the grid, the
\* score, the level and fall_speed as they were.
C14_NoFullRowNoChange ==
  (op = "clear_lines" /\ \A i \in 1..GRID_HEIGHT : ~AllCells(call.grid[i])) =>
    /\ call.lines = 0
    /\ grid = call.grid
    /\ score = call.score
    /\ level = call.level
    /\ fall_speed = call.fall_speed

\* clear_lines on the all-empty board of a new session: fall_speed stays at
\* 1000, which is not the value of the formula at level 1.
C14_Witness ==
  /\ op = "clear_lines"
  /\ call.grid = EmptyGrid
  /\ call.score = 0 /\ call.level = 1 /\ call.fall_speed = 1000
  /\ grid = EmptyGrid /\ fall_speed = 1000

\* C15: after a rotate intent in Falling either the piece has the shape
\* turned 90 degrees clockwise and does not collide where it is, or, when the
\* turned shape would collide there, it has the shape it had before the
\* intent; its position and the board are the same in both cases.
C15_RotateOrRevert ==
  [][op' = "up" =>
       LET r == [current_piece EXCEPT !.shape = rotate(@)]
       IN /\ IF check_collision(r, grid, 0, 0)
             THEN current_piece'.shape = current_piece.shape
             ELSE /\ current_piece'.shape = r.shape
                  /\ ~check_collision(current_piece', grid', 0, 0)
          /\ current_piece'.x = current_piece.x
          /\ current_piece'.y = current_piece.y
          /\ current_piece'.color = current_piece.color
          /\ grid' = grid
          /\ state' = "Falling"]_vars

\* A rotate intent on a piece whose turned shape fits inside the board and
\* lies on a locked cell: the intent left the shape as it was.
C15_Witness ==
  /\ op = "up"
  /\ state = "Falling"
  /\ current_piece.x + Len(current_piece.shape) <= GRID_WIDTH
  /\ current_piece.y + Len(current_piece.shape[1]) <= GRID_HEIGHT
  /\ check_collision([current_piece EXCEPT !.shape = rotate(@)], grid, 0, 0)

\* The piece p moved by (dx, dy).
MovedBy(p, dx, dy) == [p EXCEPT !.x = @ + dx, !.y = @ + dy]

\* C16: a move-left, move-right or soft-drop intent in Falling changes the
\* piece's position by exactly (-1, 0), (+1, 0) or (0, +1) when
\* check_collision at that offset is false and leaves the piece as it is when
\* it is true; the shape, the board, the score and the level are unchanged,
\* and a blocked soft-drop does not lock the piece.
C16_MoveOnlyIfFree ==
  [][/\ op' = "left" =>
          current_piece' = IF check_collision(current_piece, grid, -1, 0)
                           THEN current_piece ELSE MovedBy(current_piece, -1, 0)
     /\ op' = "right" =>
          current_piece' = IF check_collision(current_piece, grid, 1, 0)
                           THEN current_piece ELSE MovedBy(current_piece, 1, 0)
     /\ op' = "down" =>
          current_piece' = IF check_collision(current_piece, grid, 0, 1)
                           THEN current_piece ELSE MovedBy(current_piece, 0, 1)
     /\ op' \in {"left", "right", "down"} =>
          /\ current_piece'.shape = current_piece.shape
          /\ grid' = grid /\ score' = score /\ level' = level
          /\ state' = "Falling"]_vars

\* A soft-drop intent on a piece still in its spawn row with no room below:
\* the piece is still the active one, where it was.
C16_Witness ==
  /\ op = "down"
  /\ state = "Falling"
  /\ current_piece.y = 0
  /\ check_collision(current_piece, grid, 0, 1)

MergeCellsBoxed(p, g) ==
  [r \in 1..GRID_HEIGHT |->
     [c \in 1..GRID_WIDTH |-> IF Covered(p, r - 1, c - 1) THEN p.color ELSE g[r][c]]]

\* C18: in every Falling state, and whenever merge_piece is called (by the
\* auto-fall on the piece as it is, by the hard-drop on the piece at the end
\* of its descent), every occupied cell of the active piece lies in columns
\* [0, width) and rows [0, height) and on an empty grid cell; so merge_piece
\* never writes at a negative row index nor on an occupied cell.
C18_PieceWithinBoard ==
  /\ [](state = "Falling" => WithinBoard(current_piece, grid))
  /\ [][/\ (op' = "tick" /\ Cells(grid') # Cells(grid)) => WithinBoard(current_piece, grid)
        /\ op' = "space" =>
             /\ WithinBoard(DropFrom(current_piece, grid), grid)
             /\ grid' = clear_lines(MergeCellsBoxed(DropFrom(current_piece, grid), grid),
                                    score, level, fall_speed).grid]_vars

\* A piece resting on locked cells, above the floor, that the next auto-fall
\* step or hard-drop locks.
C18_Witness ==
  /\ state = "Falling"
  /\ Cells(grid) > 0
  /\ current_piece.y + Len(current_piece.shape) < GRID_HEIGHT
  /\ check_collision(current_piece, grid, 0, 1)

\* C19: once a lock (merge_piece) has completed, no row of the grid is fully
\* occupied: the board of every Falling state, and of the GameOver state a
\* lock may end in, has no full row, also when the lock completed two
\* adjacent rows at once.
C19_NoFullRowAfterLock == \A i \in 1..GRID_HEIGHT : ~AllCells(grid[i])

\* O pieces fill the two bottom rows together, so a positive score means
\* that a lock completed two adjacent rows at once.
C19_Witness ==
  /\ state = "Falling"
  /\ score = 200
  /\ current_piece.shape = SHAPES[2]
  /\ \A i \in 1..GRID_HEIGHT : ~AllCells(grid[i])

\* C20: with the auto-fall step taken again and again, every active piece is
\* eventually locked, whatever move-left, move-right, rotate and soft-drop
\* intents are issued: from every state of play on the empty board the board
\* eventually holds locked cells, which only a lock brings about; and no
\* intent decreases the piece's row.
C20_EveryPieceLocks ==
  /\ Live(FairRun) ~> (Cells(grid) > 0)
  /\ [][op' \in {"left", "right", "up", "down"} => current_piece'.y >= current_piece.y]_vars

\* The auto-fall step has locked a piece that had been moved to the left
\* wall (SpecFair follows the session no further than its first lock).
C20_Witness ==
  /\ op = "tick"
  /\ state = "Falling"
  /\ Cells(grid) = 4
  /\ grid[GRID_HEIGHT][1] # 0

====
